---- MODULE Spec2Model ----
(***************************************************************************)
(* Model of the document retrieval and indexing subsystem of docuquery:    *)
(*   - MultiDocumentService (backend/services/multi_doc_service.py)        *)
(*   - EmbeddingService     (backend/services/embedding_service.py)        *)
(*   - LLMService           (backend/services/llm_service.py)              *)
(*   - QueryProcessor       (backend/services/query_processor.py)          *)
(*   - PDFProcessor         (backend/services/pdf_processor.py)            *)
(* Texts, queries, file ids, file names and index paths are small          *)
(* integers.  An embedding is a pair of integers; after normalize_L2 every *)
(* vector has length 5, so an inner product of two normalized vectors is   *)
(* 25 times their cosine similarity.                                       *)
(***************************************************************************)
EXTENDS Integers, Sequences, FiniteSets, TLC

(***************************************************************************)
(* Bounds of the model.                                                    *)
(***************************************************************************)
NumDocs == 2
NumTexts == 2
MaxChunks == 2
NumQueries == 2
MaxK == 2
NumNames == 1
NumPaths == 1

FileIds == 1..NumDocs
Texts == 1..NumTexts
Queries == 1..NumQueries
Ks == 1..MaxK
Names == 1..NumNames
Paths == 1..NumPaths

\* The chunk lists a caller can pass: non-empty lists of at most MaxChunks texts.
ChunkLists == UNION {[1..n -> Texts] : n \in 1..MaxChunks}

\* The chunk lists add_document and build_vector_index can be given, the empty
\* list included.
BuildChunkLists == ChunkLists \cup {<<>>}

(***************************************************************************)
(* Vectors: the embedding model and faiss.                                 *)
(***************************************************************************)
Dot(u, v) == u[1] * v[1] + u[2] * v[2]

ISqrt(n) == CHOOSE r \in 0..n : r * r <= n /\ n < (r + 1) * (r + 1)

\* The directions the embedding model produces, each of length 5.
Directions == << <<5, 0>>, <<4, 3>>, <<3, 4>>, <<0, 5>>, <<-3, 4>>, <<-4, 3>> >>

\* model.encode on one text: a direction scaled by a text-dependent magnitude
\* (the raw output of the model is not unit length).
Encode(t) ==
    LET d == Directions[((t - 1) % Len(Directions)) + 1]
        m == 1 + (t % 2)
    IN  <<m * d[1], m * d[2]>>

\* model.encode on a list of texts: one vector per text, in order.
EncodeAll(texts) == [i \in 1..Len(texts) |-> Encode(texts[i])]

\* faiss.normalize_L2 on one row: rescale to unit length (5 in this model).
NormalizeRow(v) ==
    LET n == ISqrt(Dot(v, v))
    IN  IF n = 0 THEN v ELSE <<(v[1] * 5) \div n, (v[2] * 5) \div n>>

\* faiss.normalize_L2 on a matrix: every row, in place.
normalize_L2(m) == [i \in 1..Len(m) |-> NormalizeRow(m[i])]

\* A Python None in place of an index, and a faiss.IndexFlatIP holding rows xb.
None == [present |-> FALSE, xb |-> <<>>]
IndexFlatIP(xb) == [present |-> TRUE, xb |-> xb]
ntotal(index) == Len(index.xb)

\* The positions of `left` in the order index.search reports them: by score
\* descending, equal scores by ascending position.
RECURSIVE Ranked(_, _)
Ranked(s, left) ==
    IF left = {} THEN <<>>
    ELSE LET best == CHOOSE i \in left :
                        \A j \in left : s[i] > s[j] \/ (s[i] = s[j] /\ i <= j)
         IN  <<best>> \o Ranked(s, left \ {best})

\* index.search(q, k): the k highest inner products, score-descending, ties by
\* ascending position; positions are 0-based and a missing hit is position -1.
IndexSearch(index, q, k) ==
    LET n == ntotal(index)
        s == <<>> \o [i \in 1..n |-> Dot(q, index.xb[i])]
        order == Ranked(s, 1..n)
    IN  [r \in 1..k |->
            IF r <= n THEN [score |-> s[order[r]], idx |-> order[r] - 1]
                      ELSE [score |-> -1000, idx |-> -1]]

Min(a, b) == IF a <= b THEN a ELSE b

(***************************************************************************)
(* State.                                                                  *)
(***************************************************************************)
VARIABLES
    document_indices,     \* MultiDocumentService.document_indices, in dict order
    master_index,         \* MultiDocumentService.master_index
    master_chunks,        \* MultiDocumentService.master_chunks
    chunk_to_doc_mapping, \* MultiDocumentService.chunk_to_doc_mapping
    index,                \* EmbeddingService.index
    chunks,               \* EmbeddingService.chunks
    index_loaded,         \* EmbeddingService.index_loaded
    disk,                 \* the files <base>.index / <base>.chunks / <base>.meta
    processed_documents,  \* main.py: processed_documents, file_id -> metadata
    uploads,              \* main.py: the PDF files under uploads/
    rebuild,              \* the add_document / remove_document call in progress
    search,               \* the search_across_documents call in progress
    call                  \* the last call made: its name, arguments and outcome

vars == <<document_indices, master_index, master_chunks,
          chunk_to_doc_mapping, index, chunks, index_loaded, disk,
          processed_documents, uploads, rebuild, search, call>>

mdsVars == <<document_indices, master_index, master_chunks, chunk_to_doc_mapping>>
esVars == <<index, chunks, index_loaded, disk>>
appVars == <<processed_documents, uploads>>
threadVars == <<rebuild, search>>

\* main.py at import: no document has been uploaded.
NothingUploaded ==
    /\ processed_documents = <<>>
    /\ uploads = <<>>

\* No call of the collection is in progress.  rebuild.tables is the chunk
\* table filled by the rebuild that assigned the current master_index.
NoThreads ==
    /\ rebuild = [pc |-> "idle", tables |-> <<>>]
    /\ search = [pc |-> "idle"]

(***************************************************************************)
(* EmbeddingService.create_embeddings.                                     *)
(***************************************************************************)
\* How a create_embeddings call can end: it returns the array ("ok"), or the
\* model load or model.encode fails and it raises ("raised").
EmbedOutcomes == {"ok", "raised"}

\* The array create_embeddings returns when it does not raise.
create_embeddings(texts) == EncodeAll(texts)

(***************************************************************************)
(* MultiDocumentService.                                                   *)
(***************************************************************************)
\* document_indices is a Python dict: a sequence of entries with distinct keys,
\* in insertion order; assigning to an existing key keeps its position.
Keys(di) == {di[i].file_id : i \in 1..Len(di)}

Pos(di, file_id) == CHOOSE i \in 1..Len(di) : di[i].file_id = file_id

Get(di, file_id) == di[Pos(di, file_id)]

\* An assignment that never finds the existing key: the entry is added again.
DictSetAppending(di, entry) == Append(di, entry)

\* document_indices[file_id] = entry
DictSet(di, entry) ==
    IF entry.file_id \in Keys(di)
    THEN [di EXCEPT ![Pos(di, entry.file_id)] = entry]
    ELSE Append(di, entry)

\* A deletion that drops the newest entry instead of the one named.
DictDelNewest(di, file_id) == SubSeq(di, 1, Len(di) - 1)

\* del document_indices[file_id]
DictDel(di, file_id) ==
    LET p == Pos(di, file_id)
    IN  [i \in 1..(Len(di) - 1) |-> IF i < p THEN di[i] ELSE di[i + 1]]

\* The master_chunks rows of one document, local_chunk_id counted from 0.
DocMasterChunks(entry) ==
    [i \in 1..Len(entry.chunks) |->
        [text |-> entry.chunks[i],
         file_id |-> entry.file_id,
         document_name |-> entry.metadata.original_filename,
         local_chunk_id |-> i - 1]]

RECURSIVE AllMasterChunks(_)
AllMasterChunks(di) ==
    IF di = <<>> THEN <<>>
    ELSE DocMasterChunks(Head(di)) \o AllMasterChunks(Tail(di))

\* np.vstack of the documents' embeddings, in dict order.
RECURSIVE AllEmbeddings(_)
AllEmbeddings(di) ==
    IF di = <<>> THEN <<>>
    ELSE Head(di).embeddings \o AllEmbeddings(Tail(di))

\* _rebuild_master_index without the reset of self.master_chunks and
\* self.chunk_to_doc_mapping: the rows of earlier rebuilds stay in front.
RebuildKeepingOldRows(di) ==
    IF di = <<>>
    THEN [master_index |-> None,
          master_chunks |-> <<>>,
          chunk_to_doc_mapping |-> <<>>]
    ELSE LET mc == master_chunks \o AllMasterChunks(di)
         IN  [master_index |-> IndexFlatIP(AllEmbeddings(di)),
              master_chunks |-> mc,
              chunk_to_doc_mapping |->
                  [i \in 1..Len(mc) |-> <<mc[i].file_id, mc[i].local_chunk_id>>]]

\* _rebuild_master_index without the branch for an empty collection: the
\* master state of the last non-empty collection stays.
RebuildLeavingMasterWhenEmpty(di) ==
    IF di = <<>>
    THEN [master_index |-> master_index,
          master_chunks |-> master_chunks,
          chunk_to_doc_mapping |-> chunk_to_doc_mapping]
    ELSE LET mc == AllMasterChunks(di)
         IN  [master_index |-> IndexFlatIP(AllEmbeddings(di)),
              master_chunks |-> mc,
              chunk_to_doc_mapping |->
                  [i \in 1..Len(mc) |-> <<mc[i].file_id, mc[i].local_chunk_id>>]]

\* _rebuild_master_index with chunk_to_doc_mapping holding the master position
\* in place of the position within the document.
RebuildMappingMasterPositions(di) ==
    IF di = <<>>
    THEN [master_index |-> None,
          master_chunks |-> <<>>,
          chunk_to_doc_mapping |-> <<>>]
    ELSE LET mc == AllMasterChunks(di)
         IN  [master_index |-> IndexFlatIP(AllEmbeddings(di)),
              master_chunks |-> mc,
              chunk_to_doc_mapping |->
                  [i \in 1..Len(mc) |-> <<mc[i].file_id, i - 1>>]]

\* _rebuild_master_index: the master state computed from document_indices.
\* Every entry was stored by add_document with its embeddings and a metadata
\* dict carrying original_filename, so no statement of the try block raises.
RebuildMasterIndex(di) ==
    IF di = <<>>
    THEN [master_index |-> None,
          master_chunks |-> <<>>,
          chunk_to_doc_mapping |-> <<>>]
    ELSE LET mc == AllMasterChunks(di)
         IN  [master_index |-> IndexFlatIP(AllEmbeddings(di)),
              master_chunks |-> mc,
              chunk_to_doc_mapping |->
                  [i \in 1..Len(mc) |-> <<mc[i].file_id, mc[i].local_chunk_id>>]]

\* The entry add_document stores for a successfully embedded document.
NewEntry(file_id, chunkList, metadata) ==
    LET embeddings == normalize_L2(create_embeddings(chunkList))
    IN  [file_id |-> file_id,
         index |-> IndexFlatIP(embeddings),
         chunks |-> chunkList,
         embeddings |-> embeddings,
         metadata |-> metadata]

\* add_document storing the entry before the embedding is computed, the way
\* build_vector_index stores self.chunks: a failed embedding leaves the entry.
AddedIndicesStoredFirst(file_id, chunkList, metadata, outcome) ==
    IF outcome = "ok"
    THEN DictSet(document_indices, NewEntry(file_id, chunkList, metadata))
    ELSE DictSet(document_indices,
                 [file_id |-> file_id, index |-> None, chunks |-> chunkList,
                  embeddings |-> <<>>, metadata |-> metadata])

\* add_document's try block raises before anything is assigned when
\* create_embeddings raises, and when the chunk list is empty: encode([])
\* gives an empty one-dimensional array, which faiss.normalize_L2 rejects.
AddRaises(chunkList, outcome) == outcome = "raised" \/ chunkList = <<>>

\* add_document storing an entry for an empty chunk list as for any other.
AddedIndicesAcceptingEmpty(file_id, chunkList, metadata, outcome) ==
    IF outcome = "ok"
    THEN DictSet(document_indices, NewEntry(file_id, chunkList, metadata))
    ELSE document_indices

\* document_indices after add_document's try block: the entry is stored only
\* once the embeddings are computed and normalized; when that raises nothing
\* was assigned.
AddedIndices(file_id, chunkList, metadata, outcome) ==
    IF ~AddRaises(chunkList, outcome)
    THEN DictSet(document_indices, NewEntry(file_id, chunkList, metadata))
    ELSE document_indices

\* add_document(file_id, chunks, metadata)
AddDocument ==
    \E file_id \in FileIds, chunkList \in BuildChunkLists, name \in Names,
       outcome \in EmbedOutcomes :
        /\ \E di \in {AddedIndices(file_id, chunkList,
                                   [original_filename |-> name], outcome)} :
            /\ document_indices' = di
            /\ IF ~AddRaises(chunkList, outcome)
               THEN \E m \in {RebuildMasterIndex(di)} :
                        /\ master_index' = m.master_index
                        /\ master_chunks' = m.master_chunks
                        /\ chunk_to_doc_mapping' = m.chunk_to_doc_mapping
               ELSE UNCHANGED <<master_index, master_chunks, chunk_to_doc_mapping>>
        /\ call' = [op |-> "add_document", file_id |-> file_id,
                    chunks |-> chunkList, embed |-> outcome,
                    existed |-> (file_id \in Keys(document_indices)),
                    ret |-> ~AddRaises(chunkList, outcome)]
        /\ UNCHANGED <<esVars, appVars, threadVars>>

\* remove_document(file_id)
RemoveDocument ==
    \E file_id \in FileIds :
        /\ IF file_id \notin Keys(document_indices)
           THEN UNCHANGED mdsVars
           ELSE \E di \in {DictDel(document_indices, file_id)} :
                \E m \in {RebuildMasterIndex(di)} :
                    /\ document_indices' = di
                    /\ master_index' = m.master_index
                    /\ master_chunks' = m.master_chunks
                    /\ chunk_to_doc_mapping' = m.chunk_to_doc_mapping
        /\ call' = [op |-> "remove_document", file_id |-> file_id,
                    ret |-> (file_id \in Keys(document_indices))]
        /\ UNCHANGED <<esVars, appVars, threadVars>>

\* clear_collection()
ClearCollection ==
    /\ document_indices' = <<>>
    /\ master_index' = None
    /\ master_chunks' = <<>>
    /\ chunk_to_doc_mapping' = <<>>
    /\ call' = [op |-> "clear_collection"]
    /\ UNCHANGED <<esVars, appVars, threadVars>>

\* The file_ids argument of a search: None, or a list (used only for membership).
NoFilter == [given |-> FALSE, ids |-> {}]
FilterList(ids) == [given |-> TRUE, ids |-> ids]
Filters == {NoFilter} \cup {FilterList(ids) : ids \in SUBSET FileIds}

\* Python truthiness of file_ids: None and the empty list are both false.
Truthy(file_ids) == file_ids.given /\ file_ids.ids # {}

\* One search result, built from a candidate and its master_chunks row.
ResultOf(cand, chunk_data) ==
    [text |-> chunk_data.text,
     score |-> cand.score,
     file_id |-> chunk_data.file_id,
     document_name |-> chunk_data.document_name,
     chunk_id |-> chunk_data.local_chunk_id]

\* The result loop with the filter test inverted: listed documents are skipped.
RECURSIVE ProcessResultsFilterInverted(_, _, _, _, _, _)
ProcessResultsFilterInverted(cands, i, results, k_total, file_ids, mc) ==
    IF i > Len(cands) THEN results
    ELSE IF Len(results) >= k_total THEN results
    ELSE IF ~(0 <= cands[i].idx /\ cands[i].idx < Len(mc))
         THEN ProcessResultsFilterInverted(cands, i + 1, results, k_total,
                                           file_ids, mc)
    ELSE IF Truthy(file_ids) /\ mc[cands[i].idx + 1].file_id \in file_ids.ids
         THEN ProcessResultsFilterInverted(cands, i + 1, results, k_total,
                                           file_ids, mc)
    ELSE ProcessResultsFilterInverted(
             cands, i + 1,
             Append(results, ResultOf(cands[i], mc[cands[i].idx + 1])),
             k_total, file_ids, mc)

\* The result loop inserting each result at the front of the list.
RECURSIVE ProcessResultsPrepending(_, _, _, _, _, _)
ProcessResultsPrepending(cands, i, results, k_total, file_ids, mc) ==
    IF i > Len(cands) THEN results
    ELSE IF Len(results) >= k_total THEN results
    ELSE IF ~(0 <= cands[i].idx /\ cands[i].idx < Len(mc))
         THEN ProcessResultsPrepending(cands, i + 1, results, k_total,
                                       file_ids, mc)
    ELSE IF Truthy(file_ids) /\ mc[cands[i].idx + 1].file_id \notin file_ids.ids
         THEN ProcessResultsPrepending(cands, i + 1, results, k_total,
                                       file_ids, mc)
    ELSE ProcessResultsPrepending(
             cands, i + 1,
             <<ResultOf(cands[i], mc[cands[i].idx + 1])>> \o results,
             k_total, file_ids, mc)

\* The result loop of search_across_documents, from candidate i on.
RECURSIVE ProcessResults(_, _, _, _, _, _)
ProcessResults(cands, i, results, k_total, file_ids, mc) ==
    IF i > Len(cands) THEN results
    ELSE IF Len(results) >= k_total THEN results
    ELSE IF ~(0 <= cands[i].idx /\ cands[i].idx < Len(mc))
         THEN ProcessResults(cands, i + 1, results, k_total, file_ids, mc)
    ELSE IF Truthy(file_ids) /\ mc[cands[i].idx + 1].file_id \notin file_ids.ids
         THEN ProcessResults(cands, i + 1, results, k_total, file_ids, mc)
    ELSE ProcessResults(cands, i + 1,
                        Append(results, ResultOf(cands[i], mc[cands[i].idx + 1])),
                        k_total, file_ids, mc)

\* The candidates search_across_documents fetches from the master index.
MasterCandidates(query, k_total) ==
    <<>> \o IndexSearch(master_index,
                        normalize_L2(create_embeddings(<<query>>))[1],
                        Min(k_total * 2, Len(master_chunks)))

\* What search_across_documents(query, k_total, file_ids) returns.  An
\* exception raised by the query embedding is caught and an empty list
\* returned: the call never raises.
SearchAcrossResult(query, k_total, file_ids, outcome) ==
    IF ~master_index.present \/ master_chunks = <<>>
    THEN [embed |-> "none", candidates |-> <<>>, ret |-> <<>>]
    ELSE IF outcome = "ok"
    THEN LET cands == MasterCandidates(query, k_total)
         IN  [embed |-> outcome, candidates |-> cands,
              ret |-> ProcessResults(cands, 1, <<>>, k_total, file_ids,
                                     master_chunks)]
    ELSE [embed |-> outcome, candidates |-> <<>>, ret |-> <<>>]

\* search_across_documents(query, k_total, file_ids)
SearchAcrossDocuments ==
    \E query \in Queries, k_total \in Ks, file_ids \in Filters,
       outcome \in EmbedOutcomes :
        /\ (~master_index.present \/ master_chunks = <<>>) => outcome = "ok"
        /\ \E r \in {SearchAcrossResult(query, k_total, file_ids, outcome)} :
              call' = [op |-> "search_across_documents", query |-> query,
                       k_total |-> k_total, file_ids |-> file_ids,
                       raised |-> FALSE, embed |-> r.embed,
                       candidates |-> r.candidates, ret |-> r.ret]
        /\ UNCHANGED <<mdsVars, esVars, appVars, threadVars>>

\* Sum of the rows of a matrix (np.mean up to the factor 1/len, which a cosine
\* does not see).
RECURSIVE SumRows(_)
SumRows(m) ==
    IF m = <<>> THEN <<0, 0>>
    ELSE LET r == SumRows(Tail(m)) IN <<Head(m)[1] + r[1], Head(m)[2] + r[2]>>

\* The cosine of two vectors as an exact value: num / sqrt(den2).
Cosine(u, v) == [num |-> Dot(u, v), den2 |-> Dot(u, u) * Dot(v, v)]

\* a > b for two such cosines.
CosGreater(a, b) ==
    IF a.num >= 0 /\ b.num < 0 THEN TRUE
    ELSE IF a.num < 0 /\ b.num >= 0 THEN FALSE
    ELSE IF a.num >= 0 THEN a.num * a.num * b.den2 > b.num * b.num * a.den2
    ELSE a.num * a.num * b.den2 < b.num * b.num * a.den2

\* similarities.sort(key=similarity_score, reverse=True): a stable sort.
RECURSIVE SortBySimilarity(_, _)
SortBySimilarity(sims, left) ==
    IF left = {} THEN <<>>
    ELSE LET best == CHOOSE i \in left :
                        \A j \in left :
                            \/ i = j
                            \/ CosGreater(sims[i].similarity_score,
                                          sims[j].similarity_score)
                            \/ /\ ~CosGreater(sims[j].similarity_score,
                                              sims[i].similarity_score)
                               /\ i < j
         IN  <<sims[best]>> \o SortBySimilarity(sims, left \ {best})

\* The entries of di other than file_id, in dict order.
RECURSIVE Others(_, _)
Others(di, file_id) ==
    IF di = <<>> THEN <<>>
    ELSE IF Head(di).file_id = file_id THEN Others(Tail(di), file_id)
    ELSE <<Head(di)>> \o Others(Tail(di), file_id)

\* get_document_similarities(file_id, k) on the collection di.
DocumentSimilarities(di, file_id, k) ==
    IF file_id \notin Keys(di) THEN <<>>
    ELSE LET target == SumRows(Get(di, file_id).embeddings)
             others == Others(di, file_id)
             sims == [i \in 1..Len(others) |->
                        [file_id |-> others[i].file_id,
                         document_name |-> others[i].metadata.original_filename,
                         similarity_score |->
                             Cosine(target, SumRows(others[i].embeddings)),
                         chunks_count |-> Len(others[i].chunks)]]
             sorted == SortBySimilarity(sims, 1..Len(sims))
         IN  SubSeq(sorted, 1, Min(k, Len(sorted)))

\* get_document_similarities(file_id, k): it returns a list on every path and
\* its except clause returns [] too, so it never raises.
GetDocumentSimilarities ==
    \E file_id \in FileIds, k \in Ks :
        /\ call' = [op |-> "get_document_similarities", file_id |-> file_id,
                    k |-> k, raised |-> FALSE,
                    ret |-> DocumentSimilarities(document_indices, file_id, k)]
        /\ UNCHANGED <<mdsVars, esVars, appVars, threadVars>>

(***************************************************************************)
(* EmbeddingService: one in-memory index and its files on disk.            *)
(***************************************************************************)
\* A file that does not exist.
Missing == [exists |-> FALSE, data |-> <<>>]

\* A file written without the last element of its data.
FileTruncated(data) ==
    [exists |-> TRUE, data |-> SubSeq(data, 1, Len(data) - 1)]

\* A file holding the data written to it.
File(data) == [exists |-> TRUE, data |-> data]

NoFiles == [index |-> Missing, chunks |-> Missing, meta |-> Missing]

\* build_vector_index(chunks): self.chunks is assigned before the embedding is
\* computed, the index and index_loaded only after it succeeded.
BuildVectorIndex ==
    \E chunkList \in BuildChunkLists, outcome \in EmbedOutcomes :
        /\ IF chunkList = <<>>
           THEN /\ outcome = "ok"
                /\ UNCHANGED <<index, chunks, index_loaded>>
                /\ call' = [op |-> "build_vector_index", chunks |-> chunkList,
                            embed |-> "none", raised |-> TRUE]
           ELSE /\ chunks' = chunkList
                /\ IF outcome = "ok"
                   THEN /\ index' = IndexFlatIP(
                                        normalize_L2(create_embeddings(chunkList)))
                        /\ index_loaded' = TRUE
                   ELSE UNCHANGED <<index, index_loaded>>
                /\ call' = [op |-> "build_vector_index", chunks |-> chunkList,
                            embed |-> outcome, raised |-> (outcome # "ok")]
        /\ UNCHANGED <<mdsVars, disk, appVars, threadVars>>

\* The (chunk, score) list search_similar builds from the hits of index.search.
RECURSIVE FormatResults(_, _, _)
FormatResults(hits, i, chunkList) ==
    IF i > Len(hits) THEN <<>>
    ELSE IF 0 <= hits[i].idx /\ hits[i].idx < Len(chunkList)
         THEN <<[text |-> chunkList[hits[i].idx + 1], score |-> hits[i].score]>>
              \o FormatResults(hits, i + 1, chunkList)
    ELSE FormatResults(hits, i + 1, chunkList)

\* The hits search_similar gets from the index idx for k clamped to
\* len(chunks).
SimilarHits(idx, chunkList, query, k) ==
    <<>> \o IndexSearch(idx, normalize_L2(create_embeddings(<<query>>))[1],
                        Min(k, Len(chunkList)))

\* What search_similar(query, k) does on a service holding the index idx,
\* the chunks chunkList and the flag loaded: it raises when no index is
\* loaded, when the query embedding fails, or when faiss is asked for no
\* neighbours; error is the message of the exception raised.
SearchSimilarOn(idx, chunkList, loaded, query, k, outcome) ==
    IF ~idx.present \/ ~loaded
    THEN [embed |-> "none", raised |-> TRUE, ret |-> <<>>,
          error |-> "Vector index not built. Call build_vector_index() first."]
    ELSE IF outcome # "ok" \/ Min(k, Len(chunkList)) < 1
    THEN [embed |-> outcome, raised |-> TRUE, ret |-> <<>>,
          error |-> "Failed to search similar chunks"]
    ELSE [embed |-> outcome, raised |-> FALSE,
          ret |-> FormatResults(SimilarHits(idx, chunkList, query, k), 1,
                                chunkList),
          error |-> ""]

\* search_similar(query, k) on the service as it is.
SearchSimilarResult(query, k, outcome) ==
    SearchSimilarOn(index, chunks, index_loaded, query, k, outcome)

\* search_similar(query, k)
SearchSimilar ==
    \E query \in Queries, k \in Ks, outcome \in EmbedOutcomes :
        /\ (~index.present \/ ~index_loaded) => outcome = "ok"
        /\ \E r \in {SearchSimilarResult(query, k, outcome)} :
              call' = [op |-> "search_similar", query |-> query, k |-> k,
                       embed |-> r.embed, raised |-> r.raised, ret |-> r.ret]
        /\ UNCHANGED <<mdsVars, esVars, appVars, threadVars>>

\* save_index(filename): raises without writing when there is no index, else
\* writes <filename>.index, <filename>.chunks and <filename>.meta.
SaveIndex ==
    \E filename \in Paths :
        /\ IF ~index.present
           THEN /\ UNCHANGED disk
                /\ call' = [op |-> "save_index", filename |-> filename,
                            raised |-> TRUE]
           ELSE /\ disk' = [disk EXCEPT ![filename] =
                               [index |-> File(index.xb),
                                chunks |-> File(chunks),
                                meta |-> File(<<Len(chunks), ntotal(index)>>)]]
                /\ call' = [op |-> "save_index", filename |-> filename,
                            raised |-> FALSE]
        /\ UNCHANGED <<mdsVars, index, chunks, index_loaded, appVars, threadVars>>

\* How the reads of load_index can end when both required files exist: all
\* succeed, or reading one of the files raises.
LoadOutcomes == {"ok", "index_unreadable", "chunks_unreadable", "meta_unreadable"}

\* load_index(filename): returns False untouched when .index or .chunks is
\* missing; any exception while reading resets index, chunks and index_loaded.
LoadIndex ==
    \E filename \in Paths, outcome \in LoadOutcomes :
        /\ IF ~(disk[filename].index.exists /\ disk[filename].chunks.exists)
           THEN /\ outcome = "ok"
                /\ UNCHANGED <<index, chunks, index_loaded>>
                /\ call' = [op |-> "load_index", filename |-> filename,
                            read |-> "missing", ret |-> FALSE]
           ELSE /\ outcome = "meta_unreadable" => disk[filename].meta.exists
                /\ IF outcome = "ok"
                   THEN /\ index' = IndexFlatIP(disk[filename].index.data)
                        /\ chunks' = disk[filename].chunks.data
                        /\ index_loaded' = TRUE
                   ELSE /\ index' = None
                        /\ chunks' = <<>>
                        /\ index_loaded' = FALSE
                /\ call' = [op |-> "load_index", filename |-> filename,
                            read |-> outcome, ret |-> (outcome = "ok")]
        /\ UNCHANGED <<mdsVars, disk, appVars, threadVars>>

\* clear_index()
ClearIndex ==
    /\ index' = None
    /\ chunks' = <<>>
    /\ index_loaded' = FALSE
    /\ call' = [op |-> "clear_index"]
    /\ UNCHANGED <<mdsVars, disk, appVars, threadVars>>

(***************************************************************************)
(* Specification of the multi-document collection.                         *)
(***************************************************************************)
Init ==
    /\ document_indices = <<>>
    /\ master_index = None
    /\ master_chunks = <<>>
    /\ chunk_to_doc_mapping = <<>>
    /\ index = None
    /\ chunks = <<>>
    /\ index_loaded = FALSE
    /\ disk = [p \in Paths |-> NoFiles]
    /\ NothingUploaded
    /\ NoThreads
    /\ call = [op |-> "init"]

Next ==
    \/ AddDocument
    \/ RemoveDocument
    \/ ClearCollection
    \/ SearchAcrossDocuments
    \/ GetDocumentSimilarities

Spec == Init /\ [][Next]_vars

(***************************************************************************)
(* Specification of the embedding service.                                 *)
(***************************************************************************)
NextEmbedding ==
    \/ BuildVectorIndex
    \/ SearchSimilar
    \/ SaveIndex
    \/ LoadIndex
    \/ ClearIndex

SpecEmbedding == Init /\ [][NextEmbedding]_vars

(***************************************************************************)
(* Specification of index building: the two operations that build a        *)
(* document index from a chunk list, one service of each kind.             *)
(***************************************************************************)
NextBuild ==
    \/ AddDocument
    \/ BuildVectorIndex

SpecBuild == Init /\ [][NextBuild]_vars

(***************************************************************************)
(* Properties of the multi-document collection, checked under Spec.        *)
(***************************************************************************)
\* The last call was a search_across_documents.
Searched == call.op = "search_across_documents"

\* C1: every result of search_across_documents names a file_id that is a key
\* of document_indices, and its text is the chunk of that document's current
\* entry at the result's chunk_id; no result is attributed to a document that
\* is not (or no longer) in the collection.
C1_ResultsBelongToPresentDocuments ==
    Searched =>
        \A i \in 1..Len(call.ret) :
            /\ call.ret[i].file_id \in Keys(document_indices)
            /\ call.ret[i].chunk_id + 1 \in
                   1..Len(Get(document_indices, call.ret[i].file_id).chunks)
            /\ Get(document_indices, call.ret[i].file_id).chunks[
                   call.ret[i].chunk_id + 1] = call.ret[i].text

\* A search that returned results while some file id is absent from the
\* collection (never added, or added and removed again).
C1_Witness ==
    /\ Searched
    /\ call.ret # <<>>
    /\ Keys(document_indices) # FileIds

\* C2: an add_document whose embedding raises returns False and leaves
\* document_indices, master_index, master_chunks and chunk_to_doc_mapping as
\* they were, so the document count and every get_document_similarities
\* result are the same as before the call.
C2_FailedAddLeavesCollectionUnchanged ==
    [][(call'.op = "add_document" /\ call'.embed = "raised") =>
          /\ call'.ret = FALSE
          /\ UNCHANGED mdsVars
          /\ Len(document_indices') = Len(document_indices)
          /\ \A f \in FileIds, k \in Ks :
                DocumentSimilarities(document_indices', f, k)
                    = DocumentSimilarities(document_indices, f, k)]_vars

\* A failed add_document on a collection that already holds the document.
C2_Witness ==
    /\ call.op = "add_document"
    /\ call.embed = "raised"
    /\ call.ret = FALSE
    /\ call.existed
    /\ Len(document_indices) = NumDocs

\* The number of chunks held by the documents of di.
RECURSIVE TotalChunks(_)
TotalChunks(di) ==
    IF di = <<>> THEN 0 ELSE Len(Head(di).chunks) + TotalChunks(Tail(di))

\* C5 as claimed: with a non-empty collection and no document filter,
\* search_across_documents(query, k_total) returns exactly
\* min(k_total, total number of chunks in the collection) results.
C5_UnfilteredSearchReturnsMinOfKAndTotal ==
    (Searched /\ document_indices # <<>> /\ ~call.file_ids.given) =>
        Len(call.ret) = Min(call.k_total, TotalChunks(document_indices))

\* C6: a search with a non-empty document filter returns at most k_total
\* results, each with a file_id that is a member of the filter.
C6_FilteredResultsWithinFilter ==
    (Searched /\ call.file_ids.given /\ call.file_ids.ids # {}) =>
        /\ Len(call.ret) <= call.k_total
        /\ \A i \in 1..Len(call.ret) : call.ret[i].file_id \in call.file_ids.ids

\* A filtered search that returned something although the best candidate
\* belongs to a document outside the filter.
C6_Witness ==
    /\ Searched
    /\ call.file_ids.given
    /\ call.file_ids.ids # {}
    /\ call.ret # <<>>
    /\ call.candidates # <<>>
    /\ master_chunks[call.candidates[1].idx + 1].file_id \notin call.file_ids.ids

\* The place of a result among the candidates the nearest-neighbour search
\* returned: the candidate whose master position is attributed to the
\* result's (file_id, chunk_id).
CandidatePlace(r) ==
    CHOOSE p \in 1..Len(call.candidates) :
        chunk_to_doc_mapping[call.candidates[p].idx + 1] = <<r.file_id, r.chunk_id>>

\* C7: the results of search_across_documents are in non-increasing score
\* order and appear in the order in which the nearest-neighbour search
\* returned their candidates, so equal scores keep that relative order.
C7_ResultsScoreDescendingAndStable ==
    Searched =>
        \A i, j \in 1..Len(call.ret) :
            i < j =>
                /\ call.ret[i].score >= call.ret[j].score
                /\ CandidatePlace(call.ret[i]) < CandidatePlace(call.ret[j])

\* A filtered search returning two results of equal score after skipping a
\* candidate.
C7_Witness ==
    /\ Searched
    /\ Truthy(call.file_ids)
    /\ Len(call.ret) = 2
    /\ call.ret[1].score = call.ret[2].score
    /\ Len(call.candidates) > Len(call.ret)

\* The master rows attributed to file_id, in master order.
RowsOf(rows, file_id) ==
    LET Mine(row) == row.file_id = file_id IN SelectSeq(rows, Mine)

MasterIsRebuiltFrom(di, mi, mc, map) ==
    IF di = <<>>
    THEN mi = None /\ mc = <<>> /\ map = <<>>
    ELSE /\ mi.present
         /\ Len(mc) = TotalChunks(di)
         /\ Len(map) = Len(mc)
         /\ Len(mi.xb) = Len(mc)
         /\ \A p \in 1..Len(mc) :
               /\ mc[p].file_id \in Keys(di)
               /\ mc[p].local_chunk_id + 1 \in
                      1..Len(Get(di, mc[p].file_id).chunks)
               /\ mc[p].text =
                      Get(di, mc[p].file_id).chunks[mc[p].local_chunk_id + 1]
               /\ mi.xb[p] =
                      Get(di, mc[p].file_id).embeddings[mc[p].local_chunk_id + 1]
               /\ map[p] = <<mc[p].file_id, mc[p].local_chunk_id>>
         /\ \A p, q \in 1..Len(map) : p # q => map[p] # map[q]

C11_EmptyCollectionHasNoMasterAndSearchesEmpty ==
    document_indices = <<>> =>
        /\ master_index = None
        /\ master_chunks = <<>>
        /\ chunk_to_doc_mapping = <<>>
        /\ Searched =>
              (~call.raised /\ call.ret = <<>> /\ call.embed = "none")

\* The last document of the collection has just been removed.
C11_Witness ==
    /\ call.op = "remove_document"
    /\ call.ret
    /\ document_indices = <<>>

\* C18 as claimed: get_document_similarities for a file_id that is not in
\* the collection reports a failure the caller can tell from a successful
\* call that found no other documents, which returns the empty list: it
\* raises, or returns something other than the empty list.
C18_AbsentDocumentIsReported ==
    (/\ call.op = "get_document_similarities"
     /\ call.file_id \notin Keys(document_indices)) =>
        call.raised \/ call.ret # <<>>

\* C19 as claimed: when embedding the query fails during search_similar or
\* search_across_documents, the call raises; the failure is never turned
\* into an ordinary returned result.
C19_QueryEmbeddingFailurePropagates ==
    (/\ call.op \in {"search_similar", "search_across_documents"}
     /\ call.embed = "raised") =>
        call.raised

(***************************************************************************)
(* Properties of the embedding service, checked under SpecEmbedding.       *)
(***************************************************************************)
\* C3 as claimed: in every reachable state of EmbeddingService that holds an
\* index, the number of stored chunks equals the number of vectors in the
\* index; in particular a build_vector_index that fails after an earlier
\* successful build leaves the earlier chunks with the earlier index.
C3_ChunksMatchIndex ==
    index.present => Len(chunks) = ntotal(index)

\* C4 as claimed: a load_index that fails, on a missing or on an unreadable
\* artifact, leaves index, chunks and index_loaded as they were.
C4_FailedLoadLeavesState ==
    [][(call'.op = "load_index" /\ call'.ret = FALSE) =>
          UNCHANGED <<index, chunks, index_loaded>>]_vars

\* C8 as claimed: a search_similar(query, k) that returns on a service
\* holding n chunks returns exactly min(k, n) results.
C8_SearchSimilarReturnsMinOfKAndChunks ==
    (call.op = "search_similar" /\ ~call.raised) =>
        Len(call.ret) = Min(call.k, Len(chunks))

\* What search_similar(query, k) returns on a service holding idx and
\* chunkList when the query embedding succeeds.
SearchOn(idx, chunkList, query, k) ==
    FormatResults(
        <<>> \o IndexSearch(idx, normalize_L2(create_embeddings(<<query>>))[1],
                            Min(k, Len(chunkList))),
        1, chunkList)

MaxContext == 4
NumScores == 2
NumResponses == 1

\* Relevance scores of context chunks, and the texts the provider generates.
Scores == 0..(NumScores - 1)
Responses == 1..NumResponses

\* context_chunks: a list of (text, score) tuples.
ContextChunks == [text : Texts, score : Scores]
ContextLists == UNION {[1..n -> ContextChunks] : n \in 0..MaxContext}

Piece(part, val) == [part |-> part, val |-> val]

\* s[:n]
Take(s, n) == SubSeq(s, 1, Min(n, Len(s)))

ContextLimit == 5
FallbackSections == 3

\* The pieces formatted for chunks i.. of a list: label, number, relevance, text.
RECURSIVE Sections(_, _, _, _)
Sections(label, chunkList, i, scale) ==
    IF i > Len(chunkList) THEN <<>>
    ELSE <<Piece(label, i),
           Piece("relevance", chunkList[i].score * scale),
           Piece("text", chunkList[i].text)>>
         \o Sections(label, chunkList, i + 1, scale)

\* _build_context: the first five chunks, numbered from 1.  The chunk texts
\* of the model have no surrounding whitespace for strip() to remove.
BuildContext(context_chunks) ==
    IF context_chunks = <<>>
    THEN <<Piece("No relevant context found.", 0)>>
    ELSE Sections("Context", Take(context_chunks, ContextLimit), 1, 1)

\* _build_prompt: the query and the context inside the fixed instructions.
BuildPrompt(query, context) ==
    <<Piece("Context from the document:", 0)>> \o context
        \o <<Piece("User Question:", query)>>

\* What the provider does with one generate_content call: it raises, blocks
\* the prompt, returns no candidate, a candidate without content parts, an
\* empty text, or a text.
ProviderOutcomes ==
    {"api_error", "blocked", "no_candidates", "no_content", "empty", "text"}

\* _query_gemini: every outcome but a non-empty text raises.
QueryGemini(outcome, response) ==
    IF outcome = "text"
    THEN [raised |-> FALSE, text |-> <<Piece("generated", response)>>]
    ELSE [raised |-> TRUE, text |-> <<>>]

\* _fallback_answer listing one section less than the code does.
FallbackAnswerOneSectionLess(query, context_chunks) ==
    [answer |->
        IF context_chunks = <<>>
        THEN <<Piece("I couldn't find relevant information", 0)>>
        ELSE <<Piece("I encountered an issue ... for your question", query)>>
             \o Sections("Section",
                         Take(context_chunks, FallbackSections - 1), 1, 100),
     context_used |-> Len(context_chunks),
     provider |-> "fallback",
     model |-> "none"]

\* _fallback_answer: the first three chunks, each under its section heading.
FallbackAnswer(query, context_chunks) ==
    [answer |->
        IF context_chunks = <<>>
        THEN <<Piece("I couldn't find relevant information", 0)>>
        ELSE <<Piece("I encountered an issue ... for your question", query)>>
             \o Sections("Section", Take(context_chunks, FallbackSections),
                         1, 100),
     context_used |-> Len(context_chunks),
     provider |-> "fallback",
     model |-> "none"]

\* What generate_answer(query, context_chunks) returns: any exception of the
\* try block is caught and answered by _fallback_answer, which does not raise
\* on a list of (text, score) tuples.
GenerateAnswerResult(query, context_chunks, outcome, response) ==
    LET r == QueryGemini(outcome, response)
    IN  IF r.raised
        THEN FallbackAnswer(query, context_chunks)
        ELSE [answer |-> r.text,
              context_used |-> Len(context_chunks),
              provider |-> "gemini",
              model |-> "gemini-1.5-flash"]

\* generate_answer(query, context_chunks), applied to a pending request.
GenerateAnswer ==
    /\ call.op = "request"
    /\ \E outcome \in ProviderOutcomes, response \in Responses :
       \E prompt \in {BuildPrompt(call.query, BuildContext(call.context_chunks))} :
          call' = [op |-> "generate_answer",
                   query |-> call.query,
                   context_chunks |-> call.context_chunks,
                   prompt |-> prompt,
                   outcome |-> outcome,
                   raised |-> FALSE,
                   ret |-> GenerateAnswerResult(call.query, call.context_chunks,
                                                outcome, response)]
    /\ UNCHANGED <<mdsVars, esVars, appVars, threadVars>>

\* A constructed LLMService and one request for it.
InitLLM ==
    /\ document_indices = <<>>
    /\ master_index = None
    /\ master_chunks = <<>>
    /\ chunk_to_doc_mapping = <<>>
    /\ index = None
    /\ chunks = <<>>
    /\ index_loaded = FALSE
    /\ disk = [p \in Paths |-> NoFiles]
    /\ NothingUploaded
    /\ NoThreads
    /\ call \in {[op |-> "request", query |-> query,
                  context_chunks |-> context_chunks] :
                     query \in Queries, context_chunks \in ContextLists}

NextLLM == GenerateAnswer

SpecLLM == InitLLM /\ [][NextLLM]_vars

\* The formatted string contains the chunk text as one of its values.
ContainsText(answer, text) ==
    \E i \in 1..Len(answer) : answer[i] = Piece("text", text)

\* C12: whenever the synthesis provider raises, blocks the prompt or returns
\* nothing usable, generate_answer does not raise; it returns provider
\* "fallback" with an answer that contains the text of each of the first
\* min(3, number of chunks) context chunks.
C12_ProviderFailureGivesFallbackWithTopChunks ==
    (call.op = "generate_answer" /\ call.outcome # "text") =>
        /\ ~call.raised
        /\ call.ret.provider = "fallback"
        /\ \A i \in 1..Min(3, Len(call.context_chunks)) :
              ContainsText(call.ret.answer, call.context_chunks[i].text)

\* A blocked prompt answered from a context of more than three chunks.
C12_Witness ==
    /\ call.op = "generate_answer"
    /\ call.outcome = "blocked"
    /\ Len(call.context_chunks) > 3
    /\ call.ret.provider = "fallback"
    /\ call.context_chunks[1].text # call.context_chunks[3].text

(***************************************************************************)
(* LLMService.classify_query_type.  A string is the sequence of its        *)
(* characters.                                                             *)
(***************************************************************************)
MaxQueryWords == 2

LowerLetters ==
    <<"a", "b", "c", "d", "e", "f", "g", "h", "i", "j", "k", "l", "m",
      "n", "o", "p", "q", "r", "s", "t", "u", "v", "w", "x", "y", "z">>
UpperLetters ==
    <<"A", "B", "C", "D", "E", "F", "G", "H", "I", "J", "K", "L", "M",
      "N", "O", "P", "Q", "R", "S", "T", "U", "V", "W", "X", "Y", "Z">>

\* str.lower() and str.upper(), character by character.
LowerChar(c) ==
    IF \E i \in 1..26 : UpperLetters[i] = c
    THEN LowerLetters[CHOOSE i \in 1..26 : UpperLetters[i] = c]
    ELSE c
UpperChar(c) ==
    IF \E i \in 1..26 : LowerLetters[i] = c
    THEN UpperLetters[CHOOSE i \in 1..26 : LowerLetters[i] = c]
    ELSE c
Lower(str) == [i \in 1..Len(str) |-> LowerChar(str[i])]
Upper(str) == [i \in 1..Len(str) |-> UpperChar(str[i])]
Capitalize(str) == [i \in 1..Len(str) |-> IF i = 1 THEN UpperChar(str[i]) ELSE str[i]]

\* word in str: the word occurs as a substring.
Occurs(word, str) ==
    \E i \in 1..(Len(str) - Len(word) + 1) :
        SubSeq(str, i, i + Len(word) - 1) = word

\* The keyword lists of classify_query_type.
SummaryKeywords ==
    {<<"s", "u", "m", "m", "a", "r", "y">>,
     <<"s", "u", "m", "m", "a", "r", "i", "z", "e">>,
     <<"o", "v", "e", "r", "v", "i", "e", "w">>,
     <<"m", "a", "i", "n", " ", "p", "o", "i", "n", "t", "s">>,
     <<"k", "e", "y", " ", "p", "o", "i", "n", "t", "s">>}
ExplanationKeywords ==
    {<<"w", "h", "a", "t", " ", "i", "s">>,
     <<"d", "e", "f", "i", "n", "e">>,
     <<"e", "x", "p", "l", "a", "i", "n">>,
     <<"d", "e", "s", "c", "r", "i", "b", "e">>,
     <<"t", "e", "l", "l", " ", "m", "e", " ", "a", "b", "o", "u", "t">>}
ProcessKeywords ==
    {<<"h", "o", "w">>,
     <<"p", "r", "o", "c", "e", "s", "s">>,
     <<"s", "t", "e", "p", "s">>,
     <<"m", "e", "t", "h", "o", "d">>,
     <<"p", "r", "o", "c", "e", "d", "u", "r", "e">>}
ReasoningKeywords ==
    {<<"w", "h", "y">>,
     <<"r", "e", "a", "s", "o", "n">>,
     <<"c", "a", "u", "s", "e">>,
     <<"b", "e", "c", "a", "u", "s", "e">>,
     <<"r", "a", "t", "i", "o", "n", "a", "l", "e">>}
TemporalKeywords ==
    {<<"w", "h", "e", "n">>,
     <<"d", "a", "t", "e">>,
     <<"t", "i", "m", "e">>,
     <<"s", "c", "h", "e", "d", "u", "l", "e">>,
     <<"t", "i", "m", "e", "l", "i", "n", "e">>}
EntityKeywords ==
    {<<"w", "h", "o">>,
     <<"p", "e", "r", "s", "o", "n">>,
     <<"p", "e", "o", "p", "l", "e">>,
     <<"a", "u", "t", "h", "o", "r">>,
     <<"n", "a", "m", "e">>}
ComparisonKeywords ==
    {<<"c", "o", "m", "p", "a", "r", "e">>,
     <<"d", "i", "f", "f", "e", "r", "e", "n", "c", "e">>,
     <<"v", "e", "r", "s", "u", "s">>,
     <<"v", "s">>,
     <<"c", "o", "n", "t", "r", "a", "s", "t">>}

\* any(word in query_lower for word in keywords)
AnyOccurs(keywords, query_lower) ==
    \E word \in keywords : Occurs(word, query_lower)

\* classify_query_type testing the reasoning keywords before all others.
ClassifyReasoningFirst(query) ==
    LET query_lower == <<>> \o Lower(query)
    IN  IF AnyOccurs(ReasoningKeywords, query_lower) THEN "reasoning"
        ELSE IF AnyOccurs(SummaryKeywords, query_lower) THEN "summary"
        ELSE IF AnyOccurs(ExplanationKeywords, query_lower) THEN "explanation"
        ELSE IF AnyOccurs(ProcessKeywords, query_lower) THEN "process"
        ELSE IF AnyOccurs(TemporalKeywords, query_lower) THEN "temporal"
        ELSE IF AnyOccurs(EntityKeywords, query_lower) THEN "entity"
        ELSE IF AnyOccurs(ComparisonKeywords, query_lower) THEN "comparison"
        ELSE "general"

\* classify_query_type(query)
classify_query_type(query) ==
    LET query_lower == <<>> \o Lower(query)
    IN  IF AnyOccurs(SummaryKeywords, query_lower) THEN "summary"
        ELSE IF AnyOccurs(ExplanationKeywords, query_lower) THEN "explanation"
        ELSE IF AnyOccurs(ProcessKeywords, query_lower) THEN "process"
        ELSE IF AnyOccurs(ReasoningKeywords, query_lower) THEN "reasoning"
        ELSE IF AnyOccurs(TemporalKeywords, query_lower) THEN "temporal"
        ELSE IF AnyOccurs(EntityKeywords, query_lower) THEN "entity"
        ELSE IF AnyOccurs(ComparisonKeywords, query_lower) THEN "comparison"
        ELSE "general"

\* The words queries are made of, each in lower case, capitalised or in upper
\* case: a keyword of every category, "show" (which contains "how") and words
\* that contain no keyword.
Vocabulary ==
    {<<"w", "h", "y">>,
     <<"d", "o", "e", "s">>,
     <<"t", "h", "e">>,
     <<"s", "u", "m", "m", "a", "r", "y">>,
     <<"e", "x", "p", "l", "a", "i", "n">>,
     <<"t", "h", "i", "s">>,
     <<"s", "h", "o", "w">>,
     <<"w", "h", "e", "n">>,
     <<"w", "h", "o">>,
     <<"c", "o", "m", "p", "a", "r", "e">>}
WordForms ==
    Vocabulary \cup {<<>> \o Capitalize(w) : w \in Vocabulary}
               \cup {<<>> \o Upper(w) : w \in Vocabulary}

\* ' '.join(words)
RECURSIVE JoinWords(_)
JoinWords(words) ==
    IF words = <<>> THEN <<>>
    ELSE IF Len(words) = 1 THEN words[1]
    ELSE words[1] \o <<" ">> \o JoinWords(Tail(words))

ExampleQuery ==
    JoinWords(<<<<"W", "h", "y">>,
                <<"d", "o", "e", "s">>,
                <<"t", "h", "e">>,
                <<"s", "u", "m", "m", "a", "r", "y">>,
                <<"e", "x", "p", "l", "a", "i", "n">>,
                <<"t", "h", "i", "s">>>>)

\* The queries classified: up to MaxQueryWords words, and the example.
QueryStrings ==
    {JoinWords(ws) : ws \in UNION {[1..n -> WordForms] : n \in 0..MaxQueryWords}}
        \cup {ExampleQuery, <<>> \o Lower(ExampleQuery), <<>> \o Upper(ExampleQuery)}

\* classify_query_type applied to the pending query.
ClassifyQueryType ==
    /\ call.op = "query"
    /\ call' = [op |-> "classify_query_type", query |-> call.query,
                ret |-> classify_query_type(call.query)]
    /\ UNCHANGED <<mdsVars, esVars, appVars, threadVars>>

\* A constructed LLMService and one query to classify.
InitClassify ==
    /\ document_indices = <<>>
    /\ master_index = None
    /\ master_chunks = <<>>
    /\ chunk_to_doc_mapping = <<>>
    /\ index = None
    /\ chunks = <<>>
    /\ index_loaded = FALSE
    /\ disk = [p \in Paths |-> NoFiles]
    /\ NothingUploaded
    /\ NoThreads
    /\ call \in {[op |-> "query", query |-> query] : query \in QueryStrings}

NextClassify == ClassifyQueryType

SpecClassify == InitClassify /\ [][NextClassify]_vars

\* The categories in the order of precedence, with their keyword sets.
CategoryOrder ==
    <<[type |-> "summary", keywords |-> SummaryKeywords],
      [type |-> "explanation", keywords |-> ExplanationKeywords],
      [type |-> "process", keywords |-> ProcessKeywords],
      [type |-> "reasoning", keywords |-> ReasoningKeywords],
      [type |-> "temporal", keywords |-> TemporalKeywords],
      [type |-> "entity", keywords |-> EntityKeywords],
      [type |-> "comparison", keywords |-> ComparisonKeywords]>>

\* The positions in CategoryOrder of the categories a query matches.
MatchingCategories(query) ==
    {i \in 1..Len(CategoryOrder) :
        \E word \in CategoryOrder[i].keywords : Occurs(word, Lower(query))}

\* C13: classify_query_type returns the first category, in the order summary,
\* explanation, process, reasoning, temporal, entity, comparison, one of whose
\* keywords occurs in the lower-cased query, and general when none does; a
\* query matching several categories gets the earliest, and the result is
\* the same for the query written in lower case or in upper case.
C13_ClassifyReturnsFirstMatchingCategory ==
    call.op = "classify_query_type" =>
        LET m == MatchingCategories(call.query)
        IN  /\ call.ret = IF m = {} THEN "general"
                          ELSE CategoryOrder[CHOOSE i \in m :
                                                \A j \in m : i <= j].type
            /\ classify_query_type(<<>> \o Lower(call.query)) = call.ret
            /\ classify_query_type(<<>> \o Upper(call.query)) = call.ret

\* The example, which names a reasoning, a summary and an explanation
\* keyword, is classified as summary.
C13_Witness ==
    /\ call.op = "classify_query_type"
    /\ call.query = ExampleQuery
    /\ Cardinality(MatchingCategories(call.query)) = 3
    /\ call.ret = "summary"

(***************************************************************************)
(* QueryProcessor._adjust_k_for_query_type                                 *)
(* (backend/services/query_processor.py).                                  *)
(***************************************************************************)
MaxDefaultK == 10

DefaultKs == (0 - MaxDefaultK)..MaxDefaultK

\* The types classify_query_type returns, and one it does not.
QueryTypes ==
    {"summary", "explanation", "process", "reasoning", "temporal", "entity",
     "comparison", "general", "unknown"}

MaxAdjustedK == 8

\* The adjustments dict: it has no entry for comparison.
Adjustments(default_k) ==
    [summary |-> default_k + 2,
     explanation |-> default_k + 1,
     process |-> default_k + 1,
     reasoning |-> default_k + 1,
     temporal |-> default_k,
     entity |-> default_k,
     general |-> default_k]

\* _adjust_k_for_query_type without the cap.
AdjustKUncapped(query_type, default_k) ==
    IF query_type \in DOMAIN Adjustments(default_k)
    THEN Adjustments(default_k)[query_type]
    ELSE default_k

\* _adjust_k_for_query_type: min(adjustments.get(query_type, default_k), 8)
AdjustKForQueryType(query_type, default_k) ==
    Min(IF query_type \in DOMAIN Adjustments(default_k)
        THEN Adjustments(default_k)[query_type]
        ELSE default_k,
        MaxAdjustedK)

\* _adjust_k_for_query_type applied to the pending arguments.
AdjustK ==
    /\ call.op = "arguments"
    /\ call' = [op |-> "_adjust_k_for_query_type",
                query_type |-> call.query_type,
                default_k |-> call.default_k,
                ret |-> AdjustKForQueryType(call.query_type, call.default_k)]
    /\ UNCHANGED <<mdsVars, esVars, appVars, threadVars>>

\* A query type and a default k to adjust.
InitAdjustK ==
    /\ document_indices = <<>>
    /\ master_index = None
    /\ master_chunks = <<>>
    /\ chunk_to_doc_mapping = <<>>
    /\ index = None
    /\ chunks = <<>>
    /\ index_loaded = FALSE
    /\ disk = [p \in Paths |-> NoFiles]
    /\ NothingUploaded
    /\ NoThreads
    /\ call \in {[op |-> "arguments", query_type |-> query_type,
                  default_k |-> default_k] :
                     query_type \in QueryTypes, default_k \in DefaultKs}

NextAdjustK == AdjustK

SpecAdjustK == InitAdjustK /\ [][NextAdjustK]_vars

\* C14: for every query type and integer default_k the adjusted k is
\* min(default_k + d, 8), with d = 2 for summary, 1 for explanation, process
\* and reasoning, and 0 for temporal, entity, comparison, general and unknown
\* types; it never exceeds 8.
C14_AdjustedKIsCappedSum ==
    call.op = "_adjust_k_for_query_type" =>
        LET d == CASE call.query_type = "summary" -> 2
                   [] call.query_type \in {"explanation", "process", "reasoning"} -> 1
                   [] OTHER -> 0
        IN  /\ call.ret = Min(call.default_k + d, 8)
            /\ call.ret <= 8

\* A summary query whose default k plus 2 would exceed the cap.
C14_Witness ==
    /\ call.op = "_adjust_k_for_query_type"
    /\ call.query_type = "summary"
    /\ call.default_k = 7
    /\ call.ret = 8

(***************************************************************************)
(* PDFProcessor.chunk_text (backend/services/pdf_processor.py).            *)
(* A text is the sequence of its words, text.split(); a chunk is the       *)
(* sequence of the words joined by single spaces.  A word is a small       *)
(* integer; the last word is long, the others are one character long.      *)
(***************************************************************************)
NumWords == 3
MaxTextWords == 5
MaxChunkSize == 3

MinChunkChars == 50

Words == 1..NumWords

\* len(word): the long word alone is not longer than the minimum chunk.
WordChars(word) == IF word = NumWords THEN MinChunkChars ELSE 1

WordTexts == UNION {[1..n -> Words] : n \in 0..MaxTextWords}

\* The constructor stores any two integers: it validates nothing.
ChunkSizes == 1..MaxChunkSize
Overlaps == (0 - 1)..MaxChunkSize

\* len(' '.join(chunk_words))
RECURSIVE JoinedChars(_)
JoinedChars(chunk_words) ==
    IF chunk_words = <<>> THEN 0
    ELSE IF Len(chunk_words) = 1 THEN WordChars(chunk_words[1])
    ELSE WordChars(chunk_words[1]) + 1 + JoinedChars(Tail(chunk_words))

\* words[i:i + chunk_size], i counted from 0
Window(words, i, chunk_size) ==
    SubSeq(words, i + 1, Min(i + chunk_size, Len(words)))

\* The for loop of chunk_text from start i on, for a positive step.
RECURSIVE ChunkLoop(_, _, _, _, _)
ChunkLoop(words, i, chunk_size, step, chunkList) ==
    IF i >= Len(words) THEN chunkList
    ELSE LET chunk_words == Window(words, i, chunk_size)
             added == IF JoinedChars(chunk_words) > MinChunkChars
                      THEN Append(chunkList, chunk_words)
                      ELSE chunkList
         IN  IF i + chunk_size >= Len(words) THEN added
             ELSE ChunkLoop(words, i + step, chunk_size, step, added)

\* chunk_text(text) of a processor with the given chunk_size and overlap.
\* range() raises ValueError for a step of 0 and is empty for a negative one.
ChunkText(words, chunk_size, overlap) ==
    IF Len(words) <= chunk_size
    THEN [raised |-> FALSE,
          ret |-> IF words # <<>> THEN <<words>> ELSE <<>>]
    ELSE IF chunk_size - overlap = 0
    THEN [raised |-> TRUE, ret |-> <<>>]
    ELSE IF chunk_size - overlap < 0
    THEN [raised |-> FALSE, ret |-> <<>>]
    ELSE [raised |-> FALSE,
          ret |-> ChunkLoop(words, 0, chunk_size, chunk_size - overlap, <<>>)]

\* chunk_text applied to the text by the constructed processor.
ChunkTextCall ==
    /\ call.op = "PDFProcessor"
    /\ \E r \in {ChunkText(call.text, call.chunk_size, call.overlap)} :
          call' = [op |-> "chunk_text",
                   chunk_size |-> call.chunk_size,
                   overlap |-> call.overlap,
                   text |-> call.text,
                   raised |-> r.raised,
                   ret |-> r.ret]
    /\ UNCHANGED <<mdsVars, esVars, appVars, threadVars>>

\* PDFProcessor(chunk_size, overlap) and a text to chunk.
InitChunker ==
    /\ document_indices = <<>>
    /\ master_index = None
    /\ master_chunks = <<>>
    /\ chunk_to_doc_mapping = <<>>
    /\ index = None
    /\ chunks = <<>>
    /\ index_loaded = FALSE
    /\ disk = [p \in Paths |-> NoFiles]
    /\ NothingUploaded
    /\ NoThreads
    /\ call \in {[op |-> "PDFProcessor", chunk_size |-> chunk_size,
                  overlap |-> overlap, text |-> text] :
                     chunk_size \in ChunkSizes, overlap \in Overlaps,
                     text \in WordTexts}

NextChunker == ChunkTextCall

SpecChunker == InitChunker /\ [][NextChunker]_vars

\* The chunks in order with the first overlap words of every chunk but the
\* first removed.
RECURSIVE WithoutOverlaps(_, _, _)
WithoutOverlaps(chunkList, i, overlap) ==
    IF i > Len(chunkList) THEN <<>>
    ELSE (IF i = 1 THEN chunkList[i]
          ELSE SubSeq(chunkList[i], overlap + 1, Len(chunkList[i])))
         \o WithoutOverlaps(chunkList, i + 1, overlap)

\* The start (counted from 0) of the trailing window: the first window that
\* reaches the end of the text.
TrailingStart(n, chunk_size, overlap) ==
    CHOOSE i \in 0..(n - 1) :
        /\ i % (chunk_size - overlap) = 0
        /\ i + chunk_size >= n
        /\ \A j \in 0..(i - 1) :
              j % (chunk_size - overlap) = 0 => j + chunk_size < n

\* C15 as claimed: for a text of more words than chunk_size, with
\* 0 <= overlap < chunk_size, the returned chunks with overlaps removed
\* reconstruct the word sequence, except possibly for words of the trailing
\* window: they give a prefix of the text that holds every word before the
\* trailing window.
C15_ChunksReconstructWords ==
    (/\ call.op = "chunk_text"
     /\ Len(call.text) > call.chunk_size
     /\ 0 <= call.overlap
     /\ call.overlap < call.chunk_size) =>
        /\ ~call.raised
        /\ \E m \in TrailingStart(Len(call.text), call.chunk_size,
                                  call.overlap)..Len(call.text) :
              WithoutOverlaps(call.ret, 1, call.overlap)
                  = SubSeq(call.text, 1, m)

\* C16 as claimed: chunk_text of a processor configured with
\* overlap >= chunk_size fails for every input text; it never returns a
\* chunk sequence.
C16_OverlapNotBelowChunkSizeFails ==
    (call.op = "chunk_text" /\ call.overlap >= call.chunk_size) =>
        call.raised

(***************************************************************************)
(* QueryProcessor.process_query (backend/services/query_processor.py).     *)
(* A query is spelled by its characters, which classify_query_type reads,  *)
(* and stands for one of the Queries, which the embedding model encodes.   *)
(***************************************************************************)
QuerySpellings == Vocabulary \cup {ExampleQuery}
SpelledQueries == [chars : QuerySpellings, q : Queries]

\* _format_sources: the chunks numbered from 1.  The texts of the model are
\* shorter than 200 characters, so the preview is the text.
FormatSources(chunkList) ==
    [i \in 1..Len(chunkList) |->
        [chunk_id |-> i,
         text |-> chunkList[i].text,
         relevance_score |-> chunkList[i].score,
         preview |-> chunkList[i].text]]

\* The except branch of process_query without its inner handler: when the
\* repeated search fails too, the response has no answer.
ProcessQueryFallbackWithoutAnswer(query, k, e, outcome2) ==
    LET again == SearchSimilarResult(query.q, k, outcome2)
    IN  IF ~again.raised
        THEN [query |-> query,
              answer |-> FallbackAnswer(query.q, again.ret).answer,
              sources |-> FormatSources(again.ret),
              query_type |-> "unknown",
              chunks_retrieved |-> Len(again.ret),
              llm_used |-> FALSE,
              error |-> e]
        ELSE [query |-> query, error |-> again.error]

\* The except branch of process_query for the exception message e: the search
\* is repeated with the caller's k and answered by _fallback_answer; if that
\* fails too the message is formatted into the answer.
ProcessQueryFallback(query, k, e, outcome2) ==
    LET again == SearchSimilarResult(query.q, k, outcome2)
    IN  IF ~again.raised
        THEN [query |-> query,
              answer |-> FallbackAnswer(query.q, again.ret).answer,
              sources |-> FormatSources(again.ret),
              query_type |-> "unknown",
              chunks_retrieved |-> Len(again.ret),
              llm_used |-> FALSE,
              error |-> e]
        ELSE [query |-> query,
              answer |-> <<Piece("I encountered an error processing your question:", 0),
                           Piece(e, 0)>>,
              sources |-> <<>>,
              query_type |-> "unknown",
              chunks_retrieved |-> 0,
              llm_used |-> FALSE,
              error |-> again.error]

\* process_query(query, file_id, k): classify, adjust k, search, answer.  A
\* str query makes classify_query_type and _adjust_k_for_query_type return;
\* search_similar may raise, generate_answer does not.
ProcessQueryResult(query, k, outcome1, provider, response, outcome2) ==
    LET query_type == classify_query_type(query.chars)
        adjusted_k == AdjustKForQueryType(query_type, k)
        found == SearchSimilarResult(query.q, adjusted_k, outcome1)
    IN  IF found.raised
        THEN ProcessQueryFallback(query, k, found.error, outcome2)
        ELSE IF found.ret = <<>>
        THEN [query |-> query,
              answer |-> <<Piece("I couldn't find any relevant information", 0)>>,
              sources |-> <<>>,
              query_type |-> query_type,
              chunks_retrieved |-> 0,
              llm_used |-> FALSE]
        ELSE LET llm_result == GenerateAnswerResult(query.q, found.ret,
                                                    provider, response)
             IN  [query |-> query,
                  answer |-> llm_result.answer,
                  sources |-> FormatSources(found.ret),
                  query_type |-> query_type,
                  chunks_retrieved |-> Len(found.ret),
                  llm_used |-> TRUE,
                  llm_provider |-> llm_result.provider,
                  llm_model |-> llm_result.model]

\* The prompt process_query has generate_answer send to the provider; empty
\* when generate_answer is not reached.
ProcessQueryPrompt(query, k, outcome1) ==
    LET adjusted_k == AdjustKForQueryType(classify_query_type(query.chars), k)
        found == SearchSimilarResult(query.q, adjusted_k, outcome1)
    IN  IF found.raised \/ found.ret = <<>> THEN <<>>
        ELSE BuildPrompt(query.q, BuildContext(found.ret))

\* process_query applied to the pending request; every path of it returns.
ProcessQuery ==
    /\ call.op = "query_request"
    /\ \E outcome1 \in EmbedOutcomes, provider \in ProviderOutcomes,
          response \in Responses, outcome2 \in EmbedOutcomes :
          call' = [op |-> "process_query",
                   query |-> call.query,
                   k |-> call.k,
                   embed |-> outcome1,
                   provider |-> provider,
                   prompt |-> ProcessQueryPrompt(call.query, call.k, outcome1),
                   raised |-> FALSE,
                   ret |-> ProcessQueryResult(call.query, call.k, outcome1,
                                              provider, response, outcome2)]
    /\ UNCHANGED <<mdsVars, esVars, appVars, threadVars>>

\* The states of an embedding service a query can meet: nothing built, or
\* the index built from a chunk list.
BuiltService(chunkList) ==
    [index |-> IndexFlatIP(normalize_L2(create_embeddings(chunkList))),
     chunks |-> chunkList,
     index_loaded |-> TRUE]
ServiceStates ==
    {[index |-> None, chunks |-> <<>>, index_loaded |-> FALSE]}
        \cup {BuiltService(chunkList) : chunkList \in ChunkLists}

\* An embedding service and a request for process_query.
InitProcessQuery ==
    /\ document_indices = <<>>
    /\ master_index = None
    /\ master_chunks = <<>>
    /\ chunk_to_doc_mapping = <<>>
    /\ \E service \in ServiceStates :
          /\ index = service.index
          /\ chunks = service.chunks
          /\ index_loaded = service.index_loaded
    /\ disk = [p \in Paths |-> NoFiles]
    /\ NothingUploaded
    /\ NoThreads
    /\ call \in {[op |-> "query_request", query |-> query, k |-> k] :
                    query \in SpelledQueries, k \in Ks}

(***************************************************************************)
(* MultiDocumentService.generate_cross_document_answer.                    *)
(***************************************************************************)
MaxCrossChunks == 4
MaxCrossK == 4

CrossChunkLists == UNION {[1..n -> Texts] : n \in 1..MaxCrossChunks}
CrossKs == 1..MaxCrossK

CrossDocumentLimit == 3

\* The file ids of the results in the order of their first appearance: the
\* keys of the docs_involved dict.
RECURSIVE InvolvedIds(_, _)
InvolvedIds(results, seen) ==
    IF results = <<>> THEN <<>>
    ELSE IF Head(results).file_id \in seen
         THEN InvolvedIds(Tail(results), seen)
    ELSE <<Head(results).file_id>>
         \o InvolvedIds(Tail(results), seen \cup {Head(results).file_id})

\* docs_involved: for every document its name and its results, in order.
DocsInvolved(results) ==
    LET ids == InvolvedIds(results, {})
    IN  [d \in 1..Len(ids) |->
            LET Mine(r) == r.file_id = ids[d]
                mine == SelectSeq(results, Mine)
            IN  [file_id |-> ids[d],
                 name |-> mine[1].document_name,
                 chunks |-> mine]]

\* The chunk lines of one document in the cross-document context.
RECURSIVE CrossChunkLines(_, _)
CrossChunkLines(chunkList, i) ==
    IF i > Len(chunkList) THEN <<>>
    ELSE <<Piece("relevance", chunkList[i].score),
           Piece("text", chunkList[i].text)>>
         \o CrossChunkLines(chunkList, i + 1)

\* _build_cross_document_context: a header and at most three chunks for
\* every document involved.
RECURSIVE BuildCrossDocumentContext(_)
BuildCrossDocumentContext(docs_involved) ==
    IF docs_involved = <<>> THEN <<>>
    ELSE <<Piece("--- From:", Head(docs_involved).name)>>
         \o CrossChunkLines(Take(Head(docs_involved).chunks,
                                 CrossDocumentLimit), 1)
         \o BuildCrossDocumentContext(Tail(docs_involved))

\* The (text, score) tuples handed to generate_answer.
TextsAndScores(results) ==
    [i \in 1..Len(results) |->
        [text |-> results[i].text, score |-> results[i].score]]

\* The sources of a cross-document answer; the texts of the model are
\* shorter than 200 characters, so the preview is the text.
CrossSources(results) ==
    [i \in 1..Len(results) |->
        [text |-> results[i].text,
         relevance_score |-> results[i].score,
         document_name |-> results[i].document_name,
         file_id |-> results[i].file_id,
         chunk_id |-> results[i].chunk_id,
         preview |-> results[i].text]]

\* generate_cross_document_answer(query, file_ids, k_total).  The context of
\* _build_cross_document_context is computed and then not used: the prompt
\* is the one generate_answer builds from all the results.  No statement of
\* the try block raises, so the except branch is never entered.
GenerateCrossDocumentAnswer ==
    /\ call.op = "cross_request"
    /\ \E outcome \in EmbedOutcomes, provider \in ProviderOutcomes,
          response \in Responses :
       \E search_results \in {SearchAcrossResult(call.query, call.k_total,
                                                 call.file_ids, outcome).ret} :
          IF search_results = <<>>
          THEN call' = [op |-> "generate_cross_document_answer",
                        query |-> call.query, k_total |-> call.k_total,
                        file_ids |-> call.file_ids,
                        embed |-> outcome, provider |-> "none",
                        search_results |-> search_results,
                        context |-> <<>>, prompt |-> <<>>,
                        raised |-> FALSE,
                        ret |-> [query |-> call.query,
                                 answer |-> <<Piece("I couldn't find relevant information across the available documents", 0)>>,
                                 sources |-> <<>>,
                                 documents_searched |-> 0,
                                 document_names |-> <<>>,
                                 llm_used |-> FALSE]]
          ELSE \E docs_involved \in {DocsInvolved(search_results)} :
               \E llm_result \in {GenerateAnswerResult(
                                      call.query, TextsAndScores(search_results),
                                      provider, response)} :
                  call' = [op |-> "generate_cross_document_answer",
                           query |-> call.query, k_total |-> call.k_total,
                           file_ids |-> call.file_ids,
                           embed |-> outcome, provider |-> provider,
                           search_results |-> search_results,
                           context |-> BuildCrossDocumentContext(docs_involved),
                           prompt |-> BuildPrompt(
                                          call.query,
                                          BuildContext(TextsAndScores(search_results))),
                           raised |-> FALSE,
                           ret |-> [query |-> call.query,
                                    answer |-> llm_result.answer,
                                    sources |-> CrossSources(search_results),
                                    documents_searched |-> Len(docs_involved),
                                    document_names |->
                                        [d \in 1..Len(docs_involved) |->
                                            docs_involved[d].name],
                                    llm_used |-> TRUE,
                                    llm_provider |-> llm_result.provider,
                                    llm_model |-> llm_result.model]]
    /\ UNCHANGED <<mdsVars, esVars, appVars, threadVars>>

\* The collections a cross-document query can meet: documents added one
\* after the other to an empty collection.
RECURSIVE CollectionsOf(_)
CollectionsOf(n) ==
    IF n = 0 THEN {<<>>}
    ELSE LET smaller == CollectionsOf(n - 1)
         IN  smaller \cup
             {Append(di, NewEntry(file_id, chunkList, [original_filename |-> name])) :
                 di \in {c \in smaller : Len(c) = n - 1},
                 file_id \in FileIds, chunkList \in CrossChunkLists,
                 name \in Names}

CrossCollections ==
    {di \in CollectionsOf(NumDocs) : Cardinality(Keys(di)) = Len(di)}

\* A collection with its master state and a request for
\* generate_cross_document_answer.
InitCrossDocument ==
    /\ document_indices \in CrossCollections
    /\ \E m \in {RebuildMasterIndex(document_indices)} :
          /\ master_index = m.master_index
          /\ master_chunks = m.master_chunks
          /\ chunk_to_doc_mapping = m.chunk_to_doc_mapping
    /\ index = None
    /\ chunks = <<>>
    /\ index_loaded = FALSE
    /\ disk = [p \in Paths |-> NoFiles]
    /\ NothingUploaded
    /\ NoThreads
    /\ call \in {[op |-> "cross_request", query |-> query,
                  k_total |-> k_total, file_ids |-> file_ids] :
                    query \in Queries, k_total \in CrossKs,
                    file_ids \in Filters}

(***************************************************************************)
(* Specification of answering: one request to one of the two services.     *)
(***************************************************************************)
InitAnswer == InitProcessQuery \/ InitCrossDocument

NextAnswer ==
    \/ ProcessQuery
    \/ GenerateCrossDocumentAnswer

SpecAnswer == InitAnswer /\ [][NextAnswer]_vars

(***************************************************************************)
(* Properties of answering, checked under SpecAnswer.                      *)
(***************************************************************************)
\* The last call was a process_query or a generate_cross_document_answer.
Answered == call.op \in {"process_query", "generate_cross_document_answer"}

\* C21: process_query and generate_cross_document_answer never raise: for
\* every combination of a failing search (no index, failing query embedding,
\* also in the repeated search) and a failing synthesis provider they return
\* a response record with a non-empty answer.
C21_AnswersNeverRaise ==
    Answered =>
        /\ ~call.raised
        /\ "answer" \in DOMAIN call.ret
        /\ call.ret.answer # <<>>

\* A process_query whose search raised and whose repeated search raised too.
C21_Witness ==
    /\ call.op = "process_query"
    /\ call.embed = "raised"
    /\ index.present
    /\ "error" \in DOMAIN call.ret
    /\ call.ret.chunks_retrieved = 0
    /\ call.ret.answer # <<>>

\* The messages of the exceptions search_similar raises.
ErrorMessages ==
    {"Vector index not built. Call build_vector_index() first.",
     "Failed to search similar chunks"}

\* C22 as claimed: no response of process_query or
\* generate_cross_document_answer carries the message of an internal error,
\* neither in its answer nor in another field.
C22_NoErrorTextInResponse ==
    Answered =>
        /\ "error" \notin DOMAIN call.ret
        /\ \A i \in 1..Len(call.ret.answer) :
              call.ret.answer[i].part \notin ErrorMessages

\* The number of chunk texts in a prompt.
TextPieces(prompt) ==
    Cardinality({i \in 1..Len(prompt) : prompt[i].part = "text"})

\* C23 as claimed: the prompt of a single-document answer holds at most 5
\* chunks, and the prompt of a cross-document answer holds at most 3 chunks
\* of any one document, whatever the search returned.
C23_ContextIsCapped ==
    /\ call.op = "process_query" => TextPieces(call.prompt) <= 5
    /\ call.op = "generate_cross_document_answer" =>
          \A file_id \in FileIds :
              Cardinality({i \in 1..TextPieces(call.prompt) :
                              call.search_results[i].file_id = file_id}) <= 3

RECURSIVE SelectedChunks(_, _)
SelectedChunks(di, ids) ==
    IF di = <<>> THEN 0
    ELSE (IF Head(di).file_id \in ids THEN Len(Head(di).chunks) ELSE 0)
         + SelectedChunks(Tail(di), ids)

\* C26 as claimed: a search with a non-empty document filter whose query
\* embedding succeeded returns min(k_total, number of chunks held by the
\* selected documents) results, also when those chunks are not among the
\* 2 * k_total candidates fetched from the whole collection.
C26_FilteredSearchIsNotStarved ==
    (Searched /\ call.embed = "ok" /\ call.file_ids.given
              /\ call.file_ids.ids # {}) =>
        Len(call.ret) =
            Min(call.k_total, SelectedChunks(document_indices, call.file_ids.ids))

\* C30 as claimed: a search whose filter is the empty list selects no
\* document and returns no result.
C30_EmptyFilterListSelectsNothing ==
    (Searched /\ call.file_ids.given /\ call.file_ids.ids = {}) =>
        call.ret = <<>>

(***************************************************************************)
(* A further property of chunk_text, checked under SpecChunker.            *)
(***************************************************************************)
\* The windows of chunk_size words at the starts i, i + step, ... below
\* Len(words) that are longer than the minimum, in order.
RECURSIVE LongWindowsFrom(_, _, _, _)
LongWindowsFrom(words, i, chunk_size, step) ==
    IF i >= Len(words) THEN <<>>
    ELSE (IF JoinedChars(Window(words, i, chunk_size)) > MinChunkChars
          THEN <<Window(words, i, chunk_size)>>
          ELSE <<>>)
         \o LongWindowsFrom(words, i + step, chunk_size, step)

\* C27 as claimed: for a text of n > chunk_size words and a step
\* s = chunk_size - overlap > 0, chunk_text considers one window for every
\* start 0, s, 2s, ... below n and returns, in order, those of them whose
\* joined length exceeds 50 characters.
C27_OneWindowPerStartBelowEnd ==
    (/\ call.op = "chunk_text"
     /\ Len(call.text) > call.chunk_size
     /\ call.chunk_size - call.overlap > 0) =>
        /\ ~call.raised
        /\ call.ret = LongWindowsFrom(call.text, 0, call.chunk_size,
                                      call.chunk_size - call.overlap)

(***************************************************************************)
(* main.py: the HTTP handlers over one shared EmbeddingService.  A PDF is  *)
(* the chunk list pdf_processor.process_pdf extracts from it (empty: no    *)
(* text can be extracted); the index of file_id is saved under the path    *)
(* model/<file_id>, written file_id here.                                  *)
(***************************************************************************)
\* The file ids handed out so far: uuid4 never hands out an id twice.
Uploaded == DOMAIN uploads

\* dict with key set to value
Put(dict, key, value) ==
    [x \in (DOMAIN dict) \cup {key} |-> IF x = key THEN value ELSE dict[x]]

\* dict without key
Del(dict, key) == [x \in (DOMAIN dict) \ {key} |-> dict[x]]

\* processed_documents[file_id]["status"] = status
WithStatus(docs, file_id, status) ==
    [docs EXCEPT ![file_id] = [docs[file_id] EXCEPT !.status = status]]

\* upload_pdf(file): a file whose name does not end in .pdf is rejected; else
\* the file is written under a fresh file_id and registered as "uploaded".
UploadPdf ==
    /\ Cardinality(Uploaded) < NumDocs
    /\ \E is_pdf \in BOOLEAN, content \in BuildChunkLists :
       \E file_id \in {Cardinality(Uploaded) + 1} :
          IF ~is_pdf
          THEN /\ content = <<>>
               /\ call' = [op |-> "upload_pdf", raised |-> TRUE, status |-> 400]
               /\ UNCHANGED appVars
          ELSE /\ uploads' = Put(uploads, file_id,
                                 [exists |-> TRUE, content |-> content])
               /\ processed_documents' =
                      Put(processed_documents, file_id,
                          [status |-> "uploaded",
                           has_index_path |-> FALSE,
                           chunks_count |-> 0])
               /\ call' = [op |-> "upload_pdf", raised |-> FALSE,
                           file_id |-> file_id]
    /\ UNCHANGED <<mdsVars, esVars, threadVars>>

\* A PDF under uploads/ is removed by something other than the handlers.
UploadLost ==
    /\ \E file_id \in Uploaded :
          /\ uploads[file_id].exists
          /\ uploads' = [uploads EXCEPT ![file_id].exists = FALSE]
          /\ call' = [op |-> "upload_lost", file_id |-> file_id]
    /\ UNCHANGED <<mdsVars, esVars, processed_documents, threadVars>>

\* process_pdf(request): 404 for an unknown id, "already_processed" for a
\* processed one; else the status becomes "processing", the PDF is chunked,
\* the shared index is built from the chunks and saved under model/<file_id>.
\* An HTTPException raised inside the try block is re-raised as it is; any
\* other exception sets the status to "error".
ProcessPdf ==
    /\ \E file_id \in FileIds, outcome \in EmbedOutcomes :
          IF file_id \notin DOMAIN processed_documents
          THEN /\ outcome = "ok"
               /\ call' = [op |-> "process_pdf", file_id |-> file_id,
                           raised |-> TRUE, status |-> 404]
               /\ UNCHANGED <<index, chunks, index_loaded, disk,
                              processed_documents>>
          ELSE IF processed_documents[file_id].status = "processed"
          THEN /\ outcome = "ok"
               /\ call' = [op |-> "process_pdf", file_id |-> file_id,
                           raised |-> FALSE, status |-> "already_processed"]
               /\ UNCHANGED <<index, chunks, index_loaded, disk,
                              processed_documents>>
          ELSE IF ~uploads[file_id].exists
          THEN /\ outcome = "ok"
               /\ processed_documents' =
                      WithStatus(processed_documents, file_id, "processing")
               /\ call' = [op |-> "process_pdf", file_id |-> file_id,
                           raised |-> TRUE, status |-> 404]
               /\ UNCHANGED <<index, chunks, index_loaded, disk>>
          ELSE IF uploads[file_id].content = <<>>
          THEN /\ outcome = "ok"
               /\ processed_documents' =
                      WithStatus(processed_documents, file_id, "error")
               /\ call' = [op |-> "process_pdf", file_id |-> file_id,
                           raised |-> TRUE, status |-> 500]
               /\ UNCHANGED <<index, chunks, index_loaded, disk>>
          ELSE IF outcome # "ok"
          THEN /\ chunks' = uploads[file_id].content
               /\ processed_documents' =
                      WithStatus(processed_documents, file_id, "error")
               /\ call' = [op |-> "process_pdf", file_id |-> file_id,
                           raised |-> TRUE, status |-> 500]
               /\ UNCHANGED <<index, index_loaded, disk>>
          ELSE /\ chunks' = uploads[file_id].content
               /\ index' = IndexFlatIP(normalize_L2(
                               create_embeddings(uploads[file_id].content)))
               /\ index_loaded' = TRUE
               /\ disk' = [disk EXCEPT ![file_id] =
                              [index |-> File(index'.xb),
                               chunks |-> File(chunks'),
                               meta |-> File(<<Len(chunks'), ntotal(index')>>)]]
               /\ processed_documents' =
                      [processed_documents EXCEPT ![file_id] =
                          [status |-> "processed",
                           has_index_path |-> TRUE,
                           chunks_count |-> Len(uploads[file_id].content)]]
               /\ call' = [op |-> "process_pdf", file_id |-> file_id,
                           raised |-> FALSE, status |-> "processed"]
    /\ UNCHANGED <<mdsVars, uploads, threadVars>>

\* The sources query_document lists for the search results.
QuerySources(results) ==
    [i \in 1..Len(results) |->
        [chunk_id |-> i, text |-> results[i].text,
         relevance_score |-> results[i].score]]

\* query_document(request): 404 for an unknown id, 400 for a document that is
\* not "processed"; else the index under model/<file_id> is loaded only when
\* the shared service has no index loaded, and the query is answered from the
\* index the service then holds.  Every exception inside the try block becomes
\* a 500.
QueryDocument ==
    /\ \E file_id \in FileIds :
          IF file_id \notin DOMAIN processed_documents
          THEN /\ call' = [op |-> "query_document", file_id |-> file_id,
                           raised |-> TRUE, status |-> 404]
               /\ UNCHANGED <<index, chunks, index_loaded>>
          ELSE IF processed_documents[file_id].status # "processed"
          THEN /\ call' = [op |-> "query_document", file_id |-> file_id,
                           raised |-> TRUE, status |-> 400]
               /\ UNCHANGED <<index, chunks, index_loaded>>
          ELSE /\ IF index_loaded
                  THEN UNCHANGED <<index, chunks, index_loaded>>
                  ELSE IF ~(disk[file_id].index.exists
                            /\ disk[file_id].chunks.exists)
                  THEN UNCHANGED <<index, chunks, index_loaded>>
                  ELSE \E read \in LoadOutcomes :
                          /\ read = "meta_unreadable" =>
                                 disk[file_id].meta.exists
                          /\ IF read = "ok"
                             THEN /\ index' = IndexFlatIP(
                                                  disk[file_id].index.data)
                                  /\ chunks' = disk[file_id].chunks.data
                                  /\ index_loaded' = TRUE
                             ELSE /\ index' = None
                                  /\ chunks' = <<>>
                                  /\ index_loaded' = FALSE
               /\ IF ~index_loaded'
                  THEN call' = [op |-> "query_document", file_id |-> file_id,
                                raised |-> TRUE, status |-> 500]
                  ELSE \E query \in Queries, k \in Ks,
                          outcome \in EmbedOutcomes :
                       \E found \in {SearchSimilarOn(index', chunks',
                                                       index_loaded', query,
                                                       k, outcome)} :
                          IF found.raised
                          THEN call' = [op |-> "query_document",
                                        file_id |-> file_id,
                                        raised |-> TRUE, status |-> 500]
                          ELSE \E provider \in ProviderOutcomes,
                                  response \in Responses :
                               call' =
                                  [op |-> "query_document",
                                   file_id |-> file_id,
                                   query |-> query,
                                   k |-> k,
                                   raised |-> FALSE,
                                   ret |-> [answer |->
                                               GenerateAnswerResult(
                                                   query, found.ret, provider,
                                                   response).answer,
                                            sources |-> QuerySources(found.ret),
                                            file_id |-> file_id,
                                            chunks_retrieved |-> Len(found.ret)]]
    /\ UNCHANGED <<mdsVars, disk, appVars, threadVars>>

\* delete_document(file_id): 404 for an unknown id; else the PDF and the index
\* files are removed and the entry is deleted.  The shared service is left as
\* it is.
DeleteDocument ==
    /\ \E file_id \in FileIds :
          IF file_id \notin DOMAIN processed_documents
          THEN /\ call' = [op |-> "delete_document", file_id |-> file_id,
                           raised |-> TRUE, status |-> 404]
               /\ UNCHANGED <<disk, appVars>>
          ELSE /\ uploads' = [uploads EXCEPT ![file_id].exists = FALSE]
               /\ disk' = IF processed_documents[file_id].has_index_path
                          THEN [disk EXCEPT ![file_id] = NoFiles]
                          ELSE disk
               /\ processed_documents' = Del(processed_documents, file_id)
               /\ call' = [op |-> "delete_document", file_id |-> file_id,
                           raised |-> FALSE]
    /\ UNCHANGED <<mdsVars, index, chunks, index_loaded, threadVars>>

\* main.py at import: the services are constructed, nothing is uploaded, and
\* model/ holds no index.
InitApp ==
    /\ document_indices = <<>>
    /\ master_index = None
    /\ master_chunks = <<>>
    /\ chunk_to_doc_mapping = <<>>
    /\ index = None
    /\ chunks = <<>>
    /\ index_loaded = FALSE
    /\ disk = [file_id \in FileIds |-> NoFiles]
    /\ NothingUploaded
    /\ NoThreads
    /\ call = [op |-> "init"]

NextApp ==
    \/ UploadPdf
    \/ UploadLost
    \/ ProcessPdf
    \/ QueryDocument
    \/ DeleteDocument

SpecApp == InitApp /\ [][NextApp]_vars

\* C28 as claimed: a query_document(file_id) that returns was answered from
\* the index of that document: the chunks and vectors of the shared service
\* are those of the requested document.
C28_QueryAnsweredFromOwnIndex ==
    (call.op = "query_document" /\ ~call.raised) =>
        /\ chunks = uploads[call.file_id].content
        /\ index = IndexFlatIP(normalize_L2(
                       create_embeddings(uploads[call.file_id].content)))
        /\ \A i \in 1..Len(call.ret.sources) :
              \E j \in 1..Len(uploads[call.file_id].content) :
                  call.ret.sources[i].text = uploads[call.file_id].content[j]

\* C29 as claimed: once a process_pdf request on a known document has
\* finished, the status of the document is "processed", with chunks_count
\* and index_path set, or "error": never "processing".
C29_StatusIsFinalAfterProcessing ==
    (call.op = "process_pdf" /\ call.file_id \in DOMAIN processed_documents) =>
        \/ /\ processed_documents[call.file_id].status = "processed"
           /\ processed_documents[call.file_id].has_index_path
           /\ processed_documents[call.file_id].chunks_count > 0
        \/ processed_documents[call.file_id].status = "error"

(***************************************************************************)
(* MultiDocumentService called from two threads: one runs add_document and *)
(* remove_document, the other search_across_documents.  The service takes  *)
(* no lock, so the statements of _rebuild_master_index interleave with     *)
(* those of a search.  A step below is a run of statements of one thread.  *)
(***************************************************************************)
MaxConcurrentChunks == 1

\* The chunk lists of the documents added while a search may be running.
ConcurrentChunkLists == {c \in ChunkLists : Len(c) <= MaxConcurrentChunks}

\* add_document up to the call of _rebuild_master_index: the entry is stored,
\* or the embedding fails and the call returns False.
AddDocumentBegin ==
    /\ rebuild.pc = "idle"
    /\ \E file_id \in FileIds, chunkList \in ConcurrentChunkLists, name \in Names,
          outcome \in EmbedOutcomes :
          /\ document_indices' =
                 AddedIndices(file_id, chunkList,
                              [original_filename |-> name], outcome)
          /\ rebuild' = [rebuild EXCEPT
                            !.pc = IF outcome = "ok" THEN "reset" ELSE "idle"]
          /\ call' = [op |-> "add_document", file_id |-> file_id,
                      returned |-> (outcome # "ok"), ret |-> (outcome = "ok")]
    /\ UNCHANGED <<master_index, master_chunks, chunk_to_doc_mapping,
                   esVars, appVars, search>>

\* remove_document up to the call of _rebuild_master_index.
RemoveDocumentBegin ==
    /\ rebuild.pc = "idle"
    /\ \E file_id \in FileIds :
          IF file_id \notin Keys(document_indices)
          THEN /\ call' = [op |-> "remove_document", file_id |-> file_id,
                           returned |-> TRUE, ret |-> FALSE]
               /\ UNCHANGED <<document_indices, rebuild>>
          ELSE /\ document_indices' = DictDel(document_indices, file_id)
               /\ rebuild' = [rebuild EXCEPT !.pc = "reset"]
               /\ call' = [op |-> "remove_document", file_id |-> file_id,
                           returned |-> FALSE, ret |-> TRUE]
    /\ UNCHANGED <<master_index, master_chunks, chunk_to_doc_mapping,
                   esVars, appVars, search>>

\* _rebuild_master_index: the branch for an empty collection, or the reset of
\* master_chunks and chunk_to_doc_mapping before the loop.
RebuildReset ==
    /\ rebuild.pc = "reset"
    /\ master_chunks' = <<>>
    /\ chunk_to_doc_mapping' = <<>>
    /\ IF document_indices = <<>>
       THEN /\ master_index' = None
            /\ rebuild' = [pc |-> "idle", tables |-> <<>>]
       ELSE /\ UNCHANGED master_index
            /\ rebuild' = [pc |-> "append", doc |-> 1,
                           tables |-> rebuild.tables]
    /\ call' = [op |-> "_rebuild_master_index", at |-> "reset"]
    /\ UNCHANGED <<document_indices, esVars, appVars, search>>

\* _rebuild_master_index: one pass of the loop over document_indices, which
\* appends the rows of one document.
RebuildAppend ==
    /\ rebuild.pc = "append"
    /\ rebuild.doc <= Len(document_indices)
    /\ \E rows \in {DocMasterChunks(document_indices[rebuild.doc])} :
          /\ master_chunks' = master_chunks \o rows
          /\ chunk_to_doc_mapping' =
                 chunk_to_doc_mapping
                     \o [i \in 1..Len(rows) |->
                            <<rows[i].file_id, rows[i].local_chunk_id>>]
    /\ rebuild' = [rebuild EXCEPT !.doc = rebuild.doc + 1]
    /\ call' = [op |-> "_rebuild_master_index", at |-> "append"]
    /\ UNCHANGED <<document_indices, master_index, esVars, appVars, search>>

\* _rebuild_master_index: after the loop the new index is assigned to
\* self.master_index, and add_document or remove_document returns True.
RebuildPublish ==
    /\ rebuild.pc = "append"
    /\ rebuild.doc > Len(document_indices)
    /\ master_index' = IndexFlatIP(AllEmbeddings(document_indices))
    /\ rebuild' = [pc |-> "idle", tables |-> master_chunks]
    /\ call' = [op |-> "_rebuild_master_index", at |-> "publish"]
    /\ UNCHANGED <<document_indices, master_chunks, chunk_to_doc_mapping,
                   esVars, appVars, search>>

\* search_across_documents up to the result loop: the test of master_index
\* and master_chunks, the query embedding and master_index.search.  It
\* returns [] when the test fails or the embedding raises.
SearchBegin ==
    /\ search.pc = "idle"
    /\ \E query \in Queries, k_total \in Ks, file_ids \in Filters,
          outcome \in EmbedOutcomes :
          IF ~master_index.present \/ master_chunks = <<>> \/ outcome # "ok"
          THEN /\ call' = [op |-> "search_across_documents",
                           query |-> query, k_total |-> k_total,
                           file_ids |-> file_ids, embed |-> outcome,
                           index |-> master_index, tables |-> rebuild.tables,
                           candidates |-> <<>>, ret |-> <<>>]
               /\ UNCHANGED search
          ELSE /\ search' = [pc |-> "results", query |-> query,
                             k_total |-> k_total, file_ids |-> file_ids,
                             index |-> master_index,
                             tables |-> rebuild.tables,
                             candidates |-> MasterCandidates(query, k_total)]
               /\ call' = [op |-> "search", at |-> "begin"]
    /\ UNCHANGED <<mdsVars, esVars, appVars, rebuild>>

\* search_across_documents: the result loop, which reads self.master_chunks
\* as it is by then, and the return.
SearchFinish ==
    /\ search.pc = "results"
    /\ call' = [op |-> "search_across_documents",
                query |-> search.query, k_total |-> search.k_total,
                file_ids |-> search.file_ids, embed |-> "ok",
                index |-> search.index, tables |-> search.tables,
                candidates |-> search.candidates,
                ret |-> ProcessResults(search.candidates, 1, <<>>,
                                       search.k_total, search.file_ids,
                                       master_chunks)]
    /\ search' = [pc |-> "idle"]
    /\ UNCHANGED <<mdsVars, esVars, appVars, rebuild>>

NextConcurrent ==
    \/ AddDocumentBegin
    \/ RemoveDocumentBegin
    \/ RebuildReset
    \/ RebuildAppend
    \/ RebuildPublish
    \/ SearchBegin
    \/ SearchFinish

SpecConcurrent == Init /\ [][NextConcurrent]_vars

\* What a search returns that reads the index idx and the chunk table filled
\* by the rebuild that built idx.
ResultOnOneRebuild(idx, tables, query, k_total, file_ids) ==
    IF ~idx.present \/ tables = <<>> THEN <<>>
    ELSE ProcessResults(
             <<>> \o IndexSearch(idx,
                                 normalize_L2(create_embeddings(<<query>>))[1],
                                 Min(k_total * 2, Len(tables))),
             1, <<>>, k_total, file_ids, tables)

\* C24 as claimed: a search_across_documents that runs while add_document or
\* remove_document rebuilds the master state returns what it would return on
\* the master_index it searched paired with the chunk table of the same
\* rebuild: no hit is taken from a partially filled or newer table.
C24_SearchReadsOneRebuild ==
    (Searched /\ call.embed = "ok") =>
        call.ret = ResultOnOneRebuild(call.index, call.tables, call.query,
                                      call.k_total, call.file_ids)

====
